---- MODULE Spec2Model ----
(***************************************************************************)
(* A model of models/var.py: the VAR transformer's construction (stage     *)
(* layout, level index, training attention bias), its teacher-forcing      *)
(* forward pass and its stage-by-stage autoregressive_infer_cfg loop with  *)
(* the key/value cache life cycle and classifier-free guidance.            *)
(*                                                                         *)
(* Tensors are modelled by their shapes (batch rows, sequence positions)   *)
(* and by one integer summary per batch row; Python indices are 0-based    *)
(* and kept so (stage si is patch_nums[si + 1] here).                      *)
(***************************************************************************)
EXTENDS Integers, Sequences, FiniteSets, TLC

\* ------------------------------------------------------------------ bounds
MaxPn == 3          \* largest side length of a stage
MaxStages == 3      \* longest stage descriptor
MaxB == 1           \* largest batch size of a call
MaxCached == 1      \* a call starts only while at most this many positions are cached
ValMod == 3         \* row summaries are kept modulo ValMod
RngMod == 3         \* states of the torch.Generator

\* ------------------------------------------- hyperparameters of the instance
NumClasses == 2     \* num_classes; index NumClasses is the "no class" label
V == 2              \* vae_local.vocab_size
Depth == 2          \* depth, the number of transformer blocks

Seeds == {0, 1}     \* the g_seed values tried
CfgScales == {0, 2} \* the cfg values tried
NegInf == -1        \* stands for -torch.inf in the attention bias

VARIABLES
    patch_nums, L, first_l, begin_ends, num_stages_minus_1, lvl_1L,
    prog_si,        \* self.prog_si
    blocks,         \* per block: the attention's caching flag and cached keys/values
    rng_state,      \* state of self.rng
    pc,             \* "idle"; "stage" inside autoregressive_infer_cfg's loop;
                    \* "done" while the caller holds what the last call returned
    call,           \* arguments and call-constant locals of the running call
    si, cur_L, ret, f_hat, cur_token_map,   \* loop locals
    trace,          \* what each finished stage of the last call computed
    outcome         \* how the last call ended and what it returned

model == <<patch_nums, L, first_l, begin_ends, num_stages_minus_1, lvl_1L>>
locals == <<call, si, cur_L, ret, f_hat, cur_token_map>>
vars == <<model, prog_si, blocks, rng_state, pc, locals, trace, outcome>>

\* ------------------------------------------------------------ construction
RECURSIVE SumSq(_)
\* sum(pn ** 2 for pn in patch_nums)
SumSq(pns) ==
    IF pns = <<>> THEN 0 ELSE Head(pns) * Head(pns) + SumSq(Tail(pns))

\* self.first_l = self.patch_nums[0] ** 2
FirstL(pns) == pns[1] * pns[1]

RECURSIVE BeginEndsFromLinear(_, _)
\* (mutant of BeginEndsFrom: cur advances by pn, not by pn ** 2)
BeginEndsFromLinear(pns, cur) ==
    IF pns = <<>> THEN <<>>
    ELSE <<(<<cur, cur + Head(pns) * Head(pns)>>)>>
         \o BeginEndsFromLinear(Tail(pns), cur + Head(pns))

RECURSIVE BeginEndsFrom(_, _)
\* the loop that appends (cur, cur + pn ** 2) and advances cur
BeginEndsFrom(pns, cur) ==
    IF pns = <<>> THEN <<>>
    ELSE <<(<<cur, cur + Head(pns) * Head(pns)>>)>>
         \o BeginEndsFrom(Tail(pns), cur + Head(pns) * Head(pns))

BeginEnds(pns) == BeginEndsFrom(pns, 0)

\* self.num_stages_minus_1 = len(self.patch_nums) - 1
NumStagesMinus1(pns) == Len(pns) - 1

RECURSIVE Full(_, _)
\* torch.full((n,), v)
Full(n, v) == IF n = 0 THEN <<>> ELSE <<v>> \o Full(n - 1, v)

RECURSIVE LvlFrom(_, _)
\* torch.cat([torch.full((pn*pn,), i) for i, pn in enumerate(patch_nums)])
LvlFrom(pns, i) ==
    IF pns = <<>> THEN <<>>
    ELSE Full(Head(pns) * Head(pns), i) \o LvlFrom(Tail(pns), i + 1)

Lvl1L(pns) == LvlFrom(pns, 0)

\* (mutant of BiasEntry: a strict comparison, which masks a position's own stage)
BiasEntryStrict(dp, dq) == IF dp > dq THEN 0 ELSE NegInf

\* torch.where(d >= dT, 0., -torch.inf): entry [p][q] compares the level of
\* row p with the level of column q
BiasEntry(dp, dq) == IF dp >= dq THEN 0 ELSE NegInf

\* attn_bias_for_masking[0, 0, p, q] for 0-based positions p, q
AttnBiasForMasking(lvl, p, q) == BiasEntry(lvl[p + 1], lvl[q + 1])

\* attn_bias_for_masking[:, :, :ed, :ed]: its two dimensions and its entries
AttnBiasSlice(lvl, ed) ==
    LET n == IF ed < Len(lvl) THEN ed ELSE Len(lvl)
    IN  [rows |-> n, cols |-> n,
         at |-> [p \in 0 .. (n - 1), q \in 0 .. (n - 1) |-> AttnBiasForMasking(lvl, p, q)]]

RECURSIVE SeqsUpTo(_, _)
\* the sequences over S of length 1 .. n
SeqsUpTo(S, n) ==
    IF n = 0 THEN {}
    ELSE LET shorter == SeqsUpTo(S, n - 1)
         IN  {<<x>> : x \in S} \cup shorter
             \cup {Append(q, x) : q \in {r \in shorter : Len(r) = n - 1}, x \in S}

\* every stage descriptor within the bounds
StageDescriptors == SeqsUpTo(1 .. MaxPn, MaxStages)

\* those whose resolutions never decrease from one stage to the next
Pyramids ==
    {pns \in StageDescriptors : \A i \in 1 .. (Len(pns) - 1) : pns[i] <= pns[i + 1]}

\* ------------------------------------------------------- learned parameters
\* Learned tensors are fixed but arbitrary; each is modelled by a fixed map.
\* self.class_emb: one embedding per label 0 .. NumClasses
ClassEmb(label) == label + 1

\* self.pos_start
PosStart == 1

\* (self.lvl_embed(self.lvl_1L) + self.pos_1LC)[:, from:to], summarised
LvlPos(from, to) == (from + 2 * to) % ValMod

\* self.word_embed
WordEmbed(v) == (2 * v + 1) % ValMod

Min(a, b) == IF a < b THEN a ELSE b

\* ----------------------------------------------------------- collaborators
\* The attention's cache of one block: nothing cached, caching off.
EmptyCache == [caching |-> FALSE, batch |-> 0, len |-> 0]

\* b.attn.kv_caching(enable): enabling sets the flag, disabling also clears
\* what was cached.
KvCaching(b, enable) ==
    IF enable THEN [b EXCEPT !.caching = TRUE] ELSE EmptyCache

\* One block on token map x with conditioning cond. With caching enabled it
\* appends x's keys/values to the cache and attends over everything cached;
\* otherwise it attends over x alone. The attention's result is summarised
\* by the row, its conditioning and the number of positions cached before x.
\* A cached batch of another size cannot be concatenated with x: a fatal
\* shape error.
Block(b, x, cond) ==
    IF b.caching
    THEN IF b.len > 0 /\ b.batch # x.batch
         THEN [err |-> TRUE, cache |-> b, x |-> x]
         ELSE [err |-> FALSE,
               cache |-> [caching |-> TRUE, batch |-> x.batch, len |-> b.len + x.len],
               x |-> [x EXCEPT !.val = [r \in 1 .. x.batch |->
                                     (x.val[r] + cond[r] + b.len) % ValMod]]]
    ELSE [err |-> FALSE, cache |-> b,
          x |-> [x EXCEPT !.val = [r \in 1 .. x.batch |->
                                     (x.val[r] + cond[r]) % ValMod]]]

\* sample_with_top_k_top_p_: one index per row from its logits and the draw
Sample(merged, draw) == (merged[1] + draw) % V

\* vae_quant_proxy[0].embedding
Embedding(idx) == idx + 1

\* vae_quant_proxy[0].get_next_autoregressive_input(si, SN, f_hat, h):
\* the updated accumulated map and the token map of the next stage's
\* resolution
GetNextAutoregressiveInput(s, pns, fhat, h) ==
    LET acc == [r \in DOMAIN fhat |-> (fhat[r] + h[r]) % ValMod]
    IN  [f_hat |-> acc,
         map |-> [batch |-> Len(acc), len |-> pns[s + 2] * pns[s + 2], val |-> acc]]

\* --------------------------------------------------------------- the model
\* for b in self.blocks: b.attn.kv_caching(enable)
KvCachingAll(bs, enable) == [i \in DOMAIN bs |-> KvCaching(bs[i], enable)]

RECURSIVE RunBlocksFrom(_, _, _, _)
\* for b in self.blocks: x = b(x=x, cond_BD=..., attn_bias=...)
RunBlocksFrom(i, bs, x, cond) ==
    IF i > Len(bs) THEN [err |-> FALSE, blocks |-> bs, x |-> x]
    ELSE LET r == Block(bs[i], x, cond)
         IN  IF r.err THEN [err |-> TRUE, blocks |-> bs, x |-> x]
             ELSE RunBlocksFrom(i + 1, [bs EXCEPT ![i] = r.cache], r.x, cond)

RunBlocks(bs, x, cond) == RunBlocksFrom(1, bs, x, cond)

\* get_logits: head(head_nm(h, cond_BD)), one summary per row
GetLogits(x, cond) == [r \in 1 .. x.batch |-> (x.val[r] + 2 * cond[r]) % ValMod]

\* torch.cat((label_B, torch.full_like(label_B, fill_value=self.num_classes)))
CfgLabels(label_B) == label_B \o Full(Len(label_B), NumClasses)

\* (mutant of Ratio: divides by the number of stages)
RatioByStages(s, nsm1) == [err |-> FALSE, num |-> s, den |-> nsm1 + 1]

\* ratio = si / self.num_stages_minus_1; t = cfg * ratio, as the fraction
\* <<numerator, denominator>>; the division raises when there is one stage
Ratio(s, nsm1) ==
    IF nsm1 = 0 THEN [err |-> TRUE, num |-> 0, den |-> 1]
    ELSE [err |-> FALSE, num |-> s, den |-> nsm1]

GuidanceT(cfg, ratio) == <<cfg * ratio.num, ratio.den>>

\* (mutant of CfgMerge: the two halves of the batch swapped)
CfgMergeSwapped(t, logits, B, i) ==
    <<(t[2] + t[1]) * logits[B + i] - t[1] * logits[i], t[2]>>

\* (1+t) * logits_BlV[:B] - t * logits_BlV[B:], row i of B, as a fraction
\* over t's denominator
CfgMerge(t, logits, B, i) ==
    <<(t[2] + t[1]) * logits[i] - t[1] * logits[B + i], t[2]>>

\* if si != self.num_stages_minus_1
PrepareNext(s, nsm1) == s # nsm1

\* (mutant of NextSlice: the slice taken from position 0)
NextSliceFromZero(curL, pns, s, total) ==
    <<0, Min(pns[s + 2] * pns[s + 2], total)>>

\* lvl_pos[:, cur_L:cur_L + self.patch_nums[si+1] ** 2], a Python slice of
\* the L positions
NextSlice(curL, pns, s, total) ==
    <<Min(curL, total), Min(curL + pns[s + 2] * pns[s + 2], total)>>

\* a + b along the position dimension, by broadcasting
BroadcastLen(a, b) ==
    IF a = b THEN a ELSE IF a = 1 THEN b ELSE IF b = 1 THEN a ELSE -1

\* (mutant of RetEntry: the entry keeps both halves of the doubled batch)
RetEntryDoubled(idx, h, l, returns_vemb) ==
    [batch |-> 2 * Len(idx), len |-> l,
     val |-> IF returns_vemb THEN h \o h ELSE idx \o idx]

\* ret.append(h_BChw if returns_vemb else idx_Bl)
RetEntry(idx, h, l, returns_vemb) ==
    [batch |-> Len(idx), len |-> l, val |-> IF returns_vemb THEN h ELSE idx]

\* ------------------------------------------------- autoregressive_infer_cfg
NoMap == [batch |-> 0, len |-> 0, val |-> <<>>, pos |-> <<0, 0>>]
NoInputs == [B |-> 0, label_B |-> [kind |-> "none", val |-> <<>>], g_seed |-> {},
             cfg |-> 0, returns_vemb |-> FALSE]
NoCall == [B |-> 0, cfg |-> 0, seeded |-> FALSE, lab2 |-> <<>>, cond |-> <<>>,
           returns_vemb |-> FALSE, inputs |-> NoInputs,
           entryCaching |-> FALSE, entryCached |-> 0]
NoOutcome == [op |-> "none", status |-> "none", error |-> "", ret |-> <<>>,
              batch |-> 0, len |-> 0, tokLen |-> 0, biasDim |-> 0, xlen |-> 0,
              entryCaching |-> FALSE, entryCached |-> 0, blocksRan |-> FALSE,
              inputs |-> NoInputs]

\* label_B as resolved by the first lines of the call: sampled when None (from
\* self.rng after seeding, else from the ambient generator: glabels), a filled
\* tensor when an int (the "no class" index when negative), else as given.
ResolveLabels(B, label_B, seeded, rng, glabels) ==
    CASE label_B.kind = "none" ->
            IF seeded THEN [r \in 1 .. B |-> (rng + r) % NumClasses] ELSE glabels
      [] label_B.kind = "int" ->
            Full(B, IF label_B.val[1] < 0 THEN NumClasses ELSE label_B.val[1])
      [] OTHER -> label_B.val

\* The call up to and including the loop that enables caching on every block.
\* g_seed is {} for None and {seed} otherwise.
Begin(B, label_B, g_seed, cfg, returns_vemb, bs, rng, glabels) ==
    LET seeded == g_seed # {}
        rng1 == IF seeded THEN CHOOSE s \in g_seed : TRUE ELSE rng
        lab == ResolveLabels(B, label_B, seeded, rng1, glabels)
        rng2 == IF seeded /\ label_B.kind = "none" THEN (rng1 + 1) % RngMod ELSE rng1
        lab2 == CfgLabels(lab)
        cond == [r \in 1 .. Len(lab2) |-> ClassEmb(lab2[r])]
        pos == <<0, Min(first_l, L)>>
    IN  [c |-> [B |-> B, cfg |-> cfg, seeded |-> seeded, lab2 |-> lab2, cond |-> cond,
                returns_vemb |-> returns_vemb,
                inputs |-> [B |-> B, label_B |-> label_B, g_seed |-> g_seed,
                            cfg |-> cfg, returns_vemb |-> returns_vemb],
                entryCaching |-> \E i \in DOMAIN bs : bs[i].caching,
                entryCached |-> bs[1].len],
         loc |-> [blocks |-> KvCachingAll(bs, TRUE), rng |-> rng2, si |-> 0,
                  cur_L |-> 0, ret |-> <<>>, f_hat |-> Full(B, 0),
                  map |-> [batch |-> 2 * B, len |-> first_l,
                           val |-> [r \in 1 .. 2 * B |->
                                      (cond[r] + PosStart + LvlPos(pos[1], pos[2])) % ValMod],
                           pos |-> pos],
                  trace |-> <<>>, ran |-> FALSE]]

Raise(error, loc) == [status |-> "error", error |-> error, loc |-> loc]

\* One iteration of `for si, pn in enumerate(self.patch_nums)`. gdraw is the
\* ambient generator's draw (used when the call is unseeded); fault says that
\* the sampling collaborator raises.
Stage(c, loc, gdraw, fault) ==
    LET s == loc.si
        pn == patch_nums[s + 1]
        ratio == Ratio(s, num_stages_minus_1)
        curL == loc.cur_L + pn * pn
        run == RunBlocks(loc.blocks, loc.map, c.cond)
        logits == GetLogits(run.x, c.cond)
        t == GuidanceT(c.cfg, ratio)
        merged == [i \in 1 .. c.B |-> CfgMerge(t, logits, c.B, i)]
        draw == IF c.seeded THEN loc.rng ELSE gdraw
        rng2 == IF c.seeded THEN (loc.rng + 1) % RngMod ELSE loc.rng
        idx == [i \in 1 .. c.B |-> Sample(merged[i], draw)]
        h == [i \in 1 .. c.B |-> Embedding(idx[i])]
        l == run.x.len
        ret2 == Append(loc.ret, RetEntry(idx, h, l, c.returns_vemb))
        prep == PrepareNext(s, num_stages_minus_1)
        rec == [si |-> s, t |-> t, lc |-> SubSeq(logits, 1, c.B),
                lu |-> SubSeq(logits, c.B + 1, 2 * c.B), merged |-> merged,
                ulab |-> SubSeq(c.lab2, c.B + 1, 2 * c.B),
                cur_L |-> curL, pos |-> loc.map.pos, len |-> l,
                next |-> IF prep THEN {s} ELSE {}]
        after == [loc EXCEPT !.blocks = run.blocks, !.rng = rng2, !.cur_L = curL,
                             !.ret = ret2, !.trace = Append(loc.trace, rec),
                             !.ran = TRUE]
        last == s = Len(patch_nums) - 1
    IN  IF ratio.err THEN Raise("ZeroDivisionError", loc)
        ELSE IF run.err THEN Raise("ShapeError", [loc EXCEPT !.cur_L = curL])
        ELSE IF fault
             THEN Raise("CollaboratorError",
                        [loc EXCEPT !.blocks = run.blocks, !.cur_L = curL, !.ran = TRUE])
        ELSE IF l # pn * pn
             THEN Raise("ShapeError",
                        [loc EXCEPT !.blocks = run.blocks, !.rng = rng2, !.cur_L = curL,
                                    !.ran = TRUE])
        ELSE IF ~prep
             THEN [status |-> IF last THEN "done" ELSE "next", error |-> "",
                   loc |-> [after EXCEPT !.si = s + 1]]
        ELSE IF s + 2 > Len(patch_nums) THEN Raise("IndexError", after)
        ELSE LET nxt == GetNextAutoregressiveInput(s, patch_nums, loc.f_hat, h)
                 sl == NextSlice(curL, patch_nums, s, L)
                 bl == BroadcastLen(nxt.map.len, sl[2] - sl[1])
                 we == [r \in 1 .. c.B |->
                          (WordEmbed(nxt.map.val[r]) + LvlPos(sl[1], sl[2])) % ValMod]
             IN  IF bl < 0 THEN Raise("ShapeError", [after EXCEPT !.f_hat = nxt.f_hat])
                 ELSE [status |-> IF last THEN "done" ELSE "next", error |-> "",
                       loc |-> [after EXCEPT
                                  !.si = s + 1, !.f_hat = nxt.f_hat,
                                  !.map = [batch |-> 2 * c.B, len |-> bl,
                                           val |-> we \o we, pos |-> sl]]]

\* How the call ends once the loop is left: normally caching is disabled on
\* every block and ret returned; an exception leaves the blocks as they are.
Finish(c, r) ==
    [blocks |-> IF r.status = "done" THEN KvCachingAll(r.loc.blocks, FALSE)
                ELSE r.loc.blocks,
     outcome |-> [NoOutcome EXCEPT
                    !.op = "infer",
                    !.status = IF r.status = "done" THEN "ok" ELSE "error",
                    !.error = r.error,
                    !.ret = IF r.status = "done" THEN r.loc.ret ELSE <<>>,
                    !.batch = c.B,
                    !.entryCaching = c.entryCaching, !.entryCached = c.entryCached,
                    !.blocksRan = r.loc.ran, !.inputs = c.inputs]]

\* label_B as passed: None, an int (negative, or a class), or a tensor of B
\* labels (here the one that gives neighbouring rows different classes)
LabelInputs(B) ==
    {[kind |-> "none", val |-> <<>>],
     [kind |-> "int", val |-> <<-1>>],
     [kind |-> "int", val |-> <<NumClasses - 1>>],
     [kind |-> "tensor", val |-> [r \in 1 .. B |-> (r - 1) % NumClasses]]}

SeedInputs == {{}} \cup {{s} : s \in Seeds}

CallMayStart == pc = "idle" /\ \A i \in DOMAIN blocks : blocks[i].len <= MaxCached

Returned ==
        /\ pc' = "done"
        /\ call' = NoCall /\ si' = 0 /\ cur_L' = 0 /\ ret' = <<>>
        /\ f_hat' = <<>> /\ cur_token_map' = NoMap

InferBegin(B, label_B, g_seed, cfg, returns_vemb) ==
    /\ CallMayStart
    /\ \E glabels \in IF label_B.kind = "none" /\ g_seed = {}
                      THEN [1 .. B -> 0 .. (NumClasses - 1)] ELSE {<<>>} :
         LET b == Begin(B, label_B, g_seed, cfg, returns_vemb, blocks, rng_state, glabels)
         IN  /\ call' = b.c
             /\ blocks' = b.loc.blocks
             /\ rng_state' = b.loc.rng
             /\ si' = b.loc.si /\ cur_L' = b.loc.cur_L /\ ret' = b.loc.ret
             /\ f_hat' = b.loc.f_hat /\ cur_token_map' = b.loc.map
             /\ trace' = b.loc.trace
    /\ pc' = "stage"
    /\ outcome' = NoOutcome
    /\ UNCHANGED <<model, prog_si>>

InferStage ==
    /\ pc = "stage"
    /\ \E gdraw \in IF call.seeded THEN {0} ELSE 0 .. (V - 1), fault \in BOOLEAN :
         LET loc == [blocks |-> blocks, rng |-> rng_state, si |-> si, cur_L |-> cur_L,
                     ret |-> ret, f_hat |-> f_hat, map |-> cur_token_map,
                     trace |-> trace, ran |-> si > 0]
             r == Stage(call, loc, gdraw, fault)
             fin == Finish(call, r)
         IN  /\ rng_state' = r.loc.rng
             /\ trace' = r.loc.trace
             /\ IF r.status = "next"
                THEN /\ blocks' = r.loc.blocks
                     /\ si' = r.loc.si /\ cur_L' = r.loc.cur_L /\ ret' = r.loc.ret
                     /\ f_hat' = r.loc.f_hat /\ cur_token_map' = r.loc.map
                     /\ UNCHANGED <<pc, call, outcome>>
                ELSE /\ blocks' = fin.blocks
                     /\ outcome' = fin.outcome
                     /\ Returned
    /\ UNCHANGED <<model, prog_si>>

\* ------------------------------------------------------------------ forward
\* bg, ed = self.begin_ends[self.prog_si] if self.prog_si >= 0 else (0, self.L)
ProgBgEd(psi, bes, total) == IF psi >= 0 THEN bes[psi + 1] ELSE <<0, total>>

\* x_BLC before the embeddings are added: sos alone when prog_si == 0, else
\* sos followed by the embedded teacher input
TeacherLen(psi, firstl, xlen) == IF psi = 0 THEN firstl ELSE firstl + xlen

\* x_BLC += y with y of addLen positions: y broadcasts to x only when the
\* lengths agree or y has one position
InPlaceAddOk(xl, addLen) == addLen = xl \/ addLen = 1

\* The whole of forward(label_B, x_BLCv_wo_first_l): B rows, a teacher input
\* of xlen positions, eff the labels after the random replacement by the
\* "no class" index.
ForwardResult(B, xlen, eff, psi, bs) ==
    LET ed == ProgBgEd(psi, begin_ends, L)[2]
        cond == [r \in 1 .. B |-> ClassEmb(eff[r])]
        xl == TeacherLen(psi, first_l, xlen)
        addLen == Min(ed, L)
        bias == [rows |-> Min(ed, L), cols |-> Min(ed, L)]
        x == [batch |-> B, len |-> xl,
              val |-> [r \in 1 .. B |->
                         (cond[r] + PosStart + (IF psi = 0 THEN 0 ELSE WordEmbed(0))
                          + LvlPos(0, addLen)) % ValMod],
              pos |-> <<0, addLen>>]
        run == RunBlocks(bs, x, cond)
        entry == [NoOutcome EXCEPT
                    !.op = "forward", !.batch = B, !.xlen = xlen,
                    !.entryCaching = \E i \in DOMAIN bs : bs[i].caching,
                    !.entryCached = bs[1].len]
    IN  IF ~InPlaceAddOk(xl, addLen) \/ bias.rows # xl \/ run.err
        THEN [blocks |-> bs,
              outcome |-> [entry EXCEPT !.status = "error", !.error = "ShapeError"]]
        ELSE [blocks |-> run.blocks,
              outcome |-> [entry EXCEPT !.status = "ok", !.len = run.x.len,
                                        !.tokLen = xl, !.biasDim = bias.rows,
                                        !.blocksRan = TRUE]]

\* the teacher inputs a caller passes: all stages but the first, or only the
\* stages up to the progressive-training boundary
TeacherInputs == {L - first_l, ProgBgEd(prog_si, begin_ends, L)[2] - first_l}

Forward(B, xlen) ==
    /\ CallMayStart
    /\ \E eff \in [1 .. B -> 0 .. NumClasses] :
         LET f == ForwardResult(B, xlen, eff, prog_si, blocks)
         IN  /\ blocks' = f.blocks
             /\ outcome' = f.outcome
    /\ trace' = <<>>
    /\ pc' = "done"
    /\ UNCHANGED <<model, prog_si, rng_state, locals>>

\* the caller drops what the last call returned (or the exception it raised)
Discard ==
    /\ pc = "done"
    /\ pc' = "idle"
    /\ outcome' = NoOutcome
    /\ trace' = <<>>
    /\ UNCHANGED <<model, prog_si, blocks, rng_state, locals>>

\* the trainer assigns self.prog_si: -1, or the index of a stage
SetProgSi(k) ==
    /\ pc = "idle"
    /\ k # prog_si
    /\ prog_si' = k
    /\ UNCHANGED <<model, blocks, rng_state, pc, locals, trace, outcome>>

\* ------------------------------------------------------------ specification
\* The state VAR.__init__ leaves for the stage descriptor pns.
Constructed(pns) ==
    /\ patch_nums = pns
    /\ L = SumSq(patch_nums)
    /\ first_l = FirstL(patch_nums)
    /\ begin_ends = BeginEnds(patch_nums)
    /\ num_stages_minus_1 = NumStagesMinus1(patch_nums)
    /\ lvl_1L = Lvl1L(patch_nums)
    /\ prog_si = -1
    /\ blocks = [i \in 1 .. Depth |-> EmptyCache]
    /\ rng_state = 0
    /\ pc = "idle"
    /\ call = NoCall /\ si = 0 /\ cur_L = 0 /\ ret = <<>>
    /\ f_hat = <<>> /\ cur_token_map = NoMap
    /\ trace = <<>>
    /\ outcome = NoOutcome

Init == \E pns \in Pyramids : Constructed(pns)

InitAny == \E pns \in StageDescriptors : Constructed(pns)

Progressive == \E k \in -1 .. (Len(patch_nums) - 1) : SetProgSi(k)

TeacherForcing == \E B \in 1 .. MaxB, xlen \in TeacherInputs : Forward(B, xlen)

Infer ==
    \/ \E B \in 1 .. MaxB, g_seed \in SeedInputs, cfg \in CfgScales,
          returns_vemb \in BOOLEAN :
         \E label_B \in LabelInputs(B) :
            InferBegin(B, label_B, g_seed, cfg, returns_vemb)
    \/ InferStage

\* A model in use for generation and teacher forcing; prog_si stays as
\* constructed, since only a progressive-training schedule assigns it.
Next == TeacherForcing \/ Infer \/ Discard

Spec == Init /\ [][Next]_vars

\* Construction and (progressive) teacher forcing alone.
NextTrain == Progressive \/ TeacherForcing \/ Discard

SpecTrain == InitAny /\ [][NextTrain]_vars

\* ------------------------------------------------------------------- claims
AllDisabled == \A i \in DOMAIN blocks : blocks[i] = EmptyCache

\* C1: outside an active autoregressive_infer_cfg call every block's cache is
\* disabled and empty, also after a call that raised inside its stage loop.
C1_CacheDisabledOutsideCall == pc # "stage" => AllDisabled

\* C2: a call that starts while the cache is still enabled (generation or
\* teacher forcing) ends in an error and never runs the blocks.
C2_MisuseIsFatal ==
    /\ (pc = "stage" /\ call.entryCaching) => si = 0
    /\ (pc = "done" /\ outcome.entryCaching)
          => (outcome.status = "error" /\ ~outcome.blocksRan)

\* the guidance scale of the running call, or of the one that just ended
CfgOfCall == IF pc = "stage" THEN call.cfg ELSE outcome.inputs.cfg

\* every recorded stage computed t = cfg * si / (num_stages - 1), which is 0
\* at stage 0 and cfg at the last stage
TraceRamp ==
    \A k \in 1 .. Len(trace) :
        LET rec == trace[k]
        IN  /\ rec.t[2] > 0
            /\ rec.t[1] * (Len(patch_nums) - 1) = CfgOfCall * rec.si * rec.t[2]
            /\ rec.si = 0 => rec.t[1] = 0
            /\ rec.si = Len(patch_nums) - 1 => rec.t[1] = CfgOfCall * rec.t[2]

InferEnded == pc = "done" /\ outcome.op = "infer"

\* C3 as stated: for every stage descriptor, a single stage included, the
\* stage loop computes t, 0 at stage 0 and cfg at the last stage.
C3_RampForEveryDescriptor ==
    /\ TraceRamp
    /\ InferEnded => outcome.error # "ZeroDivisionError"
    /\ (InferEnded /\ outcome.status = "ok") => Len(trace) = Len(patch_nums)

\* C3 amended: with at least two stages t is 0 at stage 0 and cfg at the last
\* stage; with a single stage the division raises and no t is computed.
C3_RampWithTwoStages ==
    /\ TraceRamp
    /\ Len(patch_nums) >= 2 =>
          /\ InferEnded => outcome.error # "ZeroDivisionError"
          /\ (InferEnded /\ outcome.status = "ok") => Len(trace) = Len(patch_nums)
    /\ Len(patch_nums) = 1 =>
          /\ trace = <<>>
          /\ InferEnded => outcome.error = "ZeroDivisionError"

C3_Witness ==
    /\ InferEnded /\ outcome.status = "ok" /\ outcome.inputs.cfg = 2
    /\ Len(patch_nums) = 3
    /\ trace[1].t[1] = 0 /\ trace[3].t = <<4, 2>>

\* the number of cells of all the stages' grids, counted as a set
GridCells ==
    {<<i, a, b>> \in (1 .. Len(patch_nums)) \X (1 .. MaxPn) \X (1 .. MaxPn) :
        a <= patch_nums[i] /\ b <= patch_nums[i]}

\* C4: L is the sum of the squared resolutions and begin_ends partitions
\* [0, L) contiguously: it starts at 0, each range has resolution^2 positions
\* and starts where the one before ends, and the last ends at L.
C4_BeginEndsPartition ==
    LET n == Len(patch_nums)
    IN  /\ L = Cardinality(GridCells)
        /\ Len(begin_ends) = n
        /\ begin_ends[1][1] = 0
        /\ \A i \in 1 .. n :
              begin_ends[i][2] = begin_ends[i][1] + patch_nums[i] * patch_nums[i]
        /\ \A i \in 1 .. (n - 1) : begin_ends[i + 1][1] = begin_ends[i][2]
        /\ begin_ends[n][2] = L
        /\ \A p \in 0 .. (L - 1) :
              Cardinality({i \in 1 .. n :
                             begin_ends[i][1] <= p /\ p < begin_ends[i][2]}) = 1

C4_Witness ==
    /\ patch_nums = <<1, 2, 3>>
    /\ begin_ends = <<(<<0, 1>>), (<<1, 5>>), (<<5, 14>>)>>
    /\ L = 14

\* the stage whose begin_ends range holds position p (0-based)
StageOfPos(p) ==
    CHOOSE i \in 0 .. (Len(patch_nums) - 1) :
        begin_ends[i + 1][1] <= p /\ p < begin_ends[i + 1][2]

\* C5: the training bias is 0 at [p, q] when the stage of q is at most the
\* stage of p and -inf otherwise, the stage of a position being its level
\* index lvl_1L; the same holds of the slice [:ed, :ed] forward uses.
C5_BiasMasksLaterStages ==
    LET ed == ProgBgEd(prog_si, begin_ends, L)[2]
        sl == AttnBiasSlice(lvl_1L, ed)
    IN  /\ Len(lvl_1L) = L
        /\ \A p \in 0 .. (L - 1) : lvl_1L[p + 1] = StageOfPos(p)
        /\ \A p \in 0 .. (L - 1), q \in 0 .. (L - 1) :
              AttnBiasForMasking(lvl_1L, p, q)
                 = IF lvl_1L[q + 1] <= lvl_1L[p + 1] THEN 0 ELSE NegInf
        /\ sl.rows = ed /\ sl.cols = ed
        /\ \A p \in 0 .. (ed - 1), q \in 0 .. (ed - 1) :
              sl.at[p, q] = IF StageOfPos(q) <= StageOfPos(p) THEN 0 ELSE NegInf

C5_Witness ==
    /\ pc = "done" /\ outcome.op = "forward" /\ outcome.status = "ok"
    /\ patch_nums = <<1, 2, 3>> /\ prog_si = 1 /\ outcome.biasDim = 5
    /\ AttnBiasForMasking(lvl_1L, 0, 1) = NegInf
    /\ AttnBiasForMasking(lvl_1L, 4, 1) = 0
    /\ AttnBiasForMasking(lvl_1L, 4, 0) = 0

\* C6: a successful call returns one entry per stage, in stage order, the
\* entry of stage si covering patch_nums[si]^2 positions of B samples.
C6_OneEntryPerStage ==
    (InferEnded /\ outcome.status = "ok") =>
        /\ Len(outcome.ret) = Len(patch_nums)
        /\ Len(trace) = Len(patch_nums)
        /\ \A k \in 1 .. Len(outcome.ret) :
              /\ trace[k].si = k - 1
              /\ outcome.ret[k].len = patch_nums[k] * patch_nums[k]
              /\ outcome.ret[k].batch = outcome.inputs.B
              /\ Len(outcome.ret[k].val) = outcome.inputs.B

C6_Witness ==
    /\ InferEnded /\ outcome.status = "ok"
    /\ patch_nums = <<1, 2, 3>>
    /\ outcome.inputs.B = 1 /\ outcome.inputs.cfg = 0
    /\ [k \in 1 .. 3 |-> outcome.ret[k].len] = <<1, 4, 9>>

RECURSIVE FreshFrom(_, _)
FreshFrom(c, loc) ==
    LET r == Stage(c, loc, 0, FALSE)
    IN  IF r.status = "next" THEN FreshFrom(c, r.loc) ELSE r

\* what a seeded call with these arguments returns on a model no call has
\* touched
FreshRun(inp) ==
    LET b == Begin(inp.B, inp.label_B, inp.g_seed, inp.cfg, inp.returns_vemb,
                   [i \in 1 .. Depth |-> EmptyCache], 0, <<>>)
    IN  FreshFrom(b.c, b.loc).loc.ret

\* C7: a seeded call returns what any other call with the same seed, label
\* and hyperparameters returns, whatever ran before it.
C7_SeededCallsAgree ==
    (InferEnded /\ outcome.status = "ok" /\ outcome.inputs.g_seed # {})
        => outcome.ret = FreshRun(outcome.inputs)

\* C8: forward on a teacher input of L - first_l positions truncates the
\* token map to [0, ed), slices the bias to [:ed, :ed] and returns logits for
\* exactly ed positions, for every prog_si.
C8_ForwardTruncates ==
    (pc = "done" /\ outcome.op = "forward" /\ outcome.xlen = L - first_l) =>
        LET ed == ProgBgEd(prog_si, begin_ends, L)[2]
        IN  /\ outcome.status = "ok"
            /\ outcome.tokLen = ed
            /\ outcome.biasDim = ed
            /\ outcome.len = ed

\* C9: at every stage the merged logits are (1+t) * conditional - t *
\* unconditional with that stage's t = cfg * si / (num_stages - 1), the
\* unconditional half is conditioned on the "no class" index, and with
\* cfg = 0 the merged logits are the conditional half's.
C9_GuidedMerge ==
    \A k \in 1 .. Len(trace) :
        LET rec == trace[k]
            n1 == Len(patch_nums) - 1
        IN  /\ \A j \in 1 .. Len(rec.ulab) : rec.ulab[j] = NumClasses
            /\ Len(rec.merged) = Len(rec.lc)
            /\ \A i \in 1 .. Len(rec.merged) :
                  /\ rec.merged[i][2] > 0
                  /\ rec.merged[i][1] * n1
                        = ((n1 + CfgOfCall * rec.si) * rec.lc[i]
                            - CfgOfCall * rec.si * rec.lu[i]) * rec.merged[i][2]
                  /\ CfgOfCall = 0 => rec.merged[i][1] = rec.lc[i] * rec.merged[i][2]

C9_Witness ==
    /\ InferEnded /\ outcome.status = "ok" /\ outcome.inputs.cfg = 2
    /\ Len(trace) = 3
    /\ trace[2].lc # trace[2].lu
    /\ trace[3].lc # trace[3].lu

\* C10: the next stage's input is synthesised after every stage but the last,
\* with stage indices 0 .. num_stages - 2 in order; the embedding slice added
\* to the token map of a stage is that stage's begin_ends range; cur_L is the
\* stage's end after the stage, so L after the last.
C10_StagesFollowBeginEnds ==
    LET n == Len(patch_nums)
    IN  /\ \A k \in 1 .. Len(trace) :
              /\ k <= n
              /\ trace[k].si = k - 1
              /\ trace[k].next = IF k - 1 < n - 1 THEN {k - 1} ELSE {}
              /\ trace[k].pos = begin_ends[k]
              /\ trace[k].len = begin_ends[k][2] - begin_ends[k][1]
              /\ trace[k].cur_L = begin_ends[k][2]
        /\ pc = "stage" =>
              /\ si < n
              /\ cur_token_map.pos = begin_ends[si + 1]
              /\ cur_L = begin_ends[si + 1][1]
        /\ (InferEnded /\ outcome.status = "ok") =>
              /\ Len(trace) = n
              /\ trace[n].cur_L = L
              /\ Cardinality(UNION {trace[k].next : k \in 1 .. n}) = n - 1

C10_Witness ==
    /\ InferEnded /\ outcome.status = "ok"
    /\ patch_nums = <<1, 2, 3>>
    /\ [k \in 1 .. 3 |-> trace[k].next] = <<{0}, {1}, {}>>
    /\ [k \in 1 .. 3 |-> trace[k].pos] = <<(<<0, 1>>), (<<1, 5>>), (<<5, 14>>)>>
    /\ trace[3].cur_L = 14

====
